---- MODULE Spec2Model ----
(***************************************************************************)
(* Model of the YouTube transcript pipeline of server.py: the two request  *)
(* handlers that reach get_youtube_transcript (/convert with a YouTube url *)
(* and /youtube), the URL helpers clean_youtube_url and                    *)
(* extract_youtube_video_id, and get_youtube_transcript itself, one action *)
(* per external call (yt-dlp extract_info, the subtitle download, the      *)
(* captions API's get_transcript, list_transcripts and fetch).             *)
(*                                                                         *)
(* A URL is a sequence of tokens (strings); a text is a sequence of runs   *)
(* [ws |-> BOOLEAN, n |-> length] of whitespace or non-whitespace          *)
(* characters.                                                             *)
(***************************************************************************)
EXTENDS Integers, Sequences, FiniteSets, TLC

\* ------------------------------------------------------------------ bounds
\* Extra query parameters appended to a request URL.
MaxParams == 1
\* Subtitle tracks yt-dlp offers for the 'en' locale.
MaxSubs == 2
\* Transcript tracks the captions API lists.
MaxTranscripts == 2

\* ------------------------------------------------------- program constants
\* len(full_text) > 50 (server.py:385)
MIN_TRANSCRIPT_LEN == 50

\* --------------------------------------------------------------- sequences
SeqsUpTo(S, n) == UNION {[1..k -> S] : k \in 0..n}

\* The least element of a non-empty set of integers.
Min(S) == CHOOSE x \in S : \A y \in S : x <= y

\* -------------------------------------------------------------- URL tokens
\* Tokens that consist only of characters of [a-zA-Z0-9_-].
WordTokens == {"abc123", "xyz", "v", "list", "feature", "watch", "shorts"}

IsWord(tok) == tok \in WordTokens

\* 'needle' in url, for a needle that is one token.
Contains(url, tok) == \E i \in 1..Len(url) : url[i] = tok

\* The maximal run of word tokens of url that starts at position i.
RECURSIVE WordRun(_, _)
WordRun(url, i) ==
  IF i <= Len(url) /\ IsWord(url[i]) THEN <<url[i]>> \o WordRun(url, i + 1)
  ELSE <<>>

\* re.search(r'youtu\.be/([a-zA-Z0-9_-]+)', url): group 1 of the leftmost
\* match, <<>> when there is no match.
ShortLinkMatch(url) ==
  LET hits == {i \in 1..Len(url) :
                 /\ url[i] = "youtu.be"
                 /\ i + 2 <= Len(url)
                 /\ url[i + 1] = "/"
                 /\ IsWord(url[i + 2])}
  IN IF hits = {} THEN <<>> ELSE WordRun(url, Min(hits) + 2)

\* urlparse(url).query: what follows the first '?', the fragment cut off.
UrlQuery(url) ==
  LET hashes == {i \in 1..Len(url) : url[i] = "#"}
      noFrag == IF hashes = {} THEN url ELSE SubSeq(url, 1, Min(hashes) - 1)
      marks  == {i \in 1..Len(noFrag) : noFrag[i] = "?"}
  IN IF marks = {} THEN <<>>
     ELSE SubSeq(noFrag, Min(marks) + 1, Len(noFrag))

\* query.split('&'): the fields of the query string.
RECURSIVE SplitAmp(_)
SplitAmp(q) ==
  LET amps == {i \in 1..Len(q) : q[i] = "&"}
  IN IF amps = {} THEN <<q>>
     ELSE <<SubSeq(q, 1, Min(amps) - 1)>>
            \o SplitAmp(SubSeq(q, Min(amps) + 1, Len(q)))

\* parse_qs(query).get(key, [None])[0]: the value of the first field
\* key=value with a non-blank value (blank values are dropped), <<>> for None.
QueryGet(q, key) ==
  LET fields == SplitAmp(q)
      IsHit(f) == /\ Len(f) >= 3
                  /\ f[1] = key
                  /\ f[2] = "="
      hits == {i \in 1..Len(fields) : IsHit(fields[i])}
  IN IF hits = {} THEN <<>>
     ELSE SubSeq(fields[Min(hits)], 3, Len(fields[Min(hits)]))

\* f"https://www.youtube.com/watch?v={video_id}"
WatchUrl(id) ==
  <<"https://", "www.", "youtube.com", "/", "watch", "?", "v", "=">> \o id

\* extract_youtube_video_id(url); <<>> stands for None.
extract_youtube_video_id(url) ==
  IF Contains(url, "youtu.be") /\ ShortLinkMatch(url) # <<>>
    THEN ShortLinkMatch(url)
  ELSE IF Contains(url, "youtube.com")
    THEN QueryGet(UrlQuery(url), "v")
  ELSE <<>>

\* The video id clean_youtube_url finds: the youtube.com branch is an elif.
CleanVideoId(url) ==
  IF Contains(url, "youtu.be") THEN ShortLinkMatch(url)
  ELSE IF Contains(url, "youtube.com") THEN QueryGet(UrlQuery(url), "v")
  ELSE <<>>

\* clean_youtube_url(url)
clean_youtube_url(url) ==
  IF CleanVideoId(url) # <<>> THEN WatchUrl(CleanVideoId(url)) ELSE url

\* ---------------------------------------------------------- request URLs
VideoIds == {<<"abc123">>}

ParamKeys == {"list", "feature"}

ParamValues == {<<"xyz">>, <<"youtu.be">>, <<"youtu.be", "/", "xyz">>}

\* The extra query parameters of a request URL, in order.
ParamLists ==
  SeqsUpTo([k : ParamKeys, v : ParamValues], MaxParams)

\* '&k=v' for every parameter.
RECURSIVE QueryTail(_)
QueryTail(ps) ==
  IF ps = <<>> THEN <<>>
  ELSE <<"&", Head(ps).k, "=">> \o Head(ps).v \o QueryTail(Tail(ps))

\* https://youtu.be/<id>[?k=v&...]
ShortUrl(id, ps) ==
  <<"https://", "youtu.be", "/">> \o id
    \o (IF ps = <<>> THEN <<>> ELSE <<"?">> \o Tail(QueryTail(ps)))

\* https://www.youtube.com/watch?v=<id>[&k=v...]
LongUrl(id, ps) == WatchUrl(id) \o QueryTail(ps)

\* https://www.youtube.com/watch?k=v...&v=<id>
LongUrlLate(id, ps) ==
  <<"https://", "www.", "youtube.com", "/", "watch", "?">>
    \o Tail(QueryTail(ps)) \o <<"&", "v", "=">> \o id

\* The short-form and long-form URLs of a video with extra parameters.
VideoUrls(id, ps) ==
  {ShortUrl(id, ps), LongUrl(id, ps)}
    \cup (IF ps = <<>> THEN {} ELSE {LongUrlLate(id, ps)})

\* URLs with a YouTube host and no short-link segment or v parameter.
NoIdUrls ==
  { <<"https://", "www.", "youtube.com", "/">>,
    <<"https://", "www.", "youtube.com", "/", "watch">>,
    <<"https://", "www.", "youtube.com", "/", "shorts", "/", "abc123">>,
    <<"https://", "www.", "youtube.com", "/", "watch", "?", "list", "=", "xyz">>,
    <<"https://", "youtu.be", "/">> }

\* Not a YouTube URL, and a request without a url (data.get('url') is None).
ForeignUrl == <<"https://", "example.com", "/", "watch", "?", "v", "=", "abc123">>

NoUrl == <<>>

RequestUrls ==
  UNION {VideoUrls(id, ps) : id \in VideoIds, ps \in ParamLists}
    \cup NoIdUrls \cup {ForeignUrl, NoUrl}

\* ------------------------------------------------------------------ texts
W(k) == [ws |-> TRUE, n |-> k]

N(k) == [ws |-> FALSE, n |-> k]

RECURSIVE TextLen(_)
TextLen(t) == IF t = <<>> THEN 0 ELSE Head(t).n + TextLen(Tail(t))

\* Only whitespace, the empty text included.
IsBlank(t) == \A i \in 1..Len(t) : t[i].ws

RECURSIVE LStrip(_)
LStrip(t) == IF t # <<>> /\ Head(t).ws THEN LStrip(Tail(t)) ELSE t

RECURSIVE RStrip(_)
RStrip(t) ==
  IF t # <<>> /\ t[Len(t)].ws THEN RStrip(SubSeq(t, 1, Len(t) - 1)) ELSE t

\* str.strip()
Strip(t) == RStrip(LStrip(t))

\* re.sub(r'\s+', ' ', t): every maximal run of whitespace becomes one space.
RECURSIVE CollapseSpaces(_)
CollapseSpaces(t) ==
  IF t = <<>> THEN <<>>
  ELSE IF Head(t).ws THEN <<W(1)>> \o CollapseSpaces(LStrip(t))
  ELSE <<Head(t)>> \o CollapseSpaces(Tail(t))

\* re.sub(r'\s+', ' ', full_text).strip() (server.py:383)
CleanText(t) == Strip(CollapseSpaces(t))

\* "\n".join(entry['text'] for entry in transcript_data)
RECURSIVE JoinLines(_)
JoinLines(entries) ==
  IF entries = <<>> THEN <<>>
  ELSE IF Len(entries) = 1 THEN Head(entries)
  ELSE Head(entries) \o <<W(1)>> \o JoinLines(Tail(entries))

\* --------------------------------------------------- subtitle tracks (yt-dlp)
\* The 'ext' tags of the tracks yt-dlp offers; ttml is one the code does not name.
Exts == {"json3", "srv3", "vtt", "srv2", "srv1", "m3u8", "ttml"}

\* A list of tracks (each stands for {'ext': ..., 'url': ...}), as its exts.
SubtitleLists == SeqsUpTo(Exts, MaxSubs)

\* info as extract_info returns it: the 'en' entries of 'subtitles' and of
\* 'automatic_captions' (<<>> when the key is missing).
Infos ==
  {[subtitles |-> s, automatic_captions |-> a] :
     s \in SubtitleLists, a \in {<<>>, <<"vtt">>, <<"srv1", "m3u8">>}}
    \cup {[subtitles |-> <<>>, automatic_captions |-> a] : a \in SubtitleLists}

\* info.get('subtitles', {}).get('en') or info.get('automatic_captions', {}).get('en')
EnglishSubtitles(info) ==
  IF info.subtitles # <<>> THEN info.subtitles ELSE info.automatic_captions

\* priority_formats of the claimed order (XML-cue variants before WebVTT).
priority_formats_xml_first == <<"json3", "srv1", "srv2", "srv3", "vtt">>

\* priority_formats = ['json3', 'srv3', 'vtt', 'srv2', 'srv1']
priority_formats == <<"json3", "srv3", "vtt", "srv2", "srv1">>

\* The index of the first track of subs with the given ext, 0 when none.
FirstWithExt(subs, fmt) ==
  LET hits == {i \in 1..Len(subs) : subs[i] = fmt}
  IN IF hits = {} THEN 0 ELSE Min(hits)

\* The loop over priority_formats from position k on: the first track of the
\* first format that is offered, 0 when none is.
RECURSIVE PriorityPick(_, _)
PriorityPick(subs, k) ==
  IF k > Len(priority_formats) THEN 0
  ELSE IF FirstWithExt(subs, priority_formats[k]) # 0
    THEN FirstWithExt(subs, priority_formats[k])
  ELSE PriorityPick(subs, k + 1)

\* 'use any non-m3u8 format': the first track whose ext is not m3u8, 0 when none.
FirstNonPlaylist(subs) ==
  LET hits == {i \in 1..Len(subs) : subs[i] # "m3u8"}
  IN IF hits = {} THEN 0 ELSE Min(hits)

\* The track whose url becomes subtitle_url (0: subtitle_url stays None).
SelectTrack(subs) ==
  IF PriorityPick(subs, 1) # 0 THEN PriorityPick(subs, 1)
  ELSE FirstNonPlaylist(subs)

\* ------------------------------------------------- downloaded subtitle body
\* A response body: whether it starts with '#EXTM3U', whether it contains
\* '#EXT-X-', whether json.loads accepts it, and the text the parser of its
\* format extracts from it (full_text before the final clean-up).
BodyTexts ==
  { <<>>,
    <<W(3)>>,
    <<N(MIN_TRANSCRIPT_LEN - 1)>>,
    <<N(MIN_TRANSCRIPT_LEN)>>,
    <<N(MIN_TRANSCRIPT_LEN + 1)>>,
    <<N(MIN_TRANSCRIPT_LEN - 1), W(3), N(1)>>,
    <<W(1), N(MIN_TRANSCRIPT_LEN), W(1)>> }

Bodies ==
  [m3u : BOOLEAN, extx : BOOLEAN, json_ok : BOOLEAN, text : BodyTexts]

\* The sniff with the marker test left out.
StartsWithPlaylistHeader(content) == content.m3u

\* content.startswith('#EXTM3U') or '#EXT-X-' in content
IsPlaylist(content) == content.m3u \/ content.extx

\* The length test that lets a text of exactly 50 characters through.
MeaningfulAtThreshold(t) == TextLen(t) > 0 /\ TextLen(t) >= MIN_TRANSCRIPT_LEN

\* full_text and len(full_text) > 50
Meaningful(t) == TextLen(t) > 0 /\ TextLen(t) > MIN_TRANSCRIPT_LEN

\* ------------------------------------------------ captions API transcripts
Languages == {"en", "en-GB", "de"}

\* A listed transcript: language code and whether it is auto-generated.
Transcripts == [language : Languages, is_generated : BOOLEAN]

\* TranscriptList iterates the manually created transcripts before the
\* generated ones, and holds one transcript per language code in each group.
IsTranscriptList(tl) ==
  /\ \A i, j \in 1..Len(tl) :
       i < j => /\ (tl[i].is_generated => tl[j].is_generated)
                /\ tl[i] # tl[j]

TranscriptLists ==
  {tl \in SeqsUpTo(Transcripts, MaxTranscripts) : IsTranscriptList(tl)}

\* The first transcript of tl with the given code among those with the given
\* is_generated flag, 0 when none.
FindIn(tl, code, gen) ==
  LET hits == {i \in 1..Len(tl) :
                 tl[i].language = code /\ tl[i].is_generated = gen}
  IN IF hits = {} THEN 0 ELSE Min(hits)

\* TranscriptList.find_transcript(codes) from position k on: for each code in
\* order, the manually created transcript, else the generated one; 0 stands
\* for NoTranscriptFound.
RECURSIVE find_transcript(_, _, _)
find_transcript(tl, codes, k) ==
  IF k > Len(codes) THEN 0
  ELSE IF FindIn(tl, codes[k], FALSE) # 0 THEN FindIn(tl, codes[k], FALSE)
  ELSE IF FindIn(tl, codes[k], TRUE) # 0 THEN FindIn(tl, codes[k], TRUE)
  ELSE find_transcript(tl, codes, k + 1)

\* languages=['en', 'en-US', 'en-GB']
EnglishCodes == <<"en", "en-US", "en-GB">>

\* Lines 438-449: the English transcript, else the first available one, else
\* 0 (NoTranscriptFound is raised).
ChooseTranscript(tl) ==
  IF find_transcript(tl, EnglishCodes, 1) # 0
    THEN find_transcript(tl, EnglishCodes, 1)
  ELSE IF tl # <<>> THEN 1
  ELSE 0

\* The texts of the entries of a fetched transcript.
EntryTexts == {<<>>, <<N(MIN_TRANSCRIPT_LEN + 1)>>}

\* transcript_data: a list of entries.
TranscriptData == SeqsUpTo(EntryTexts, 2)

\* The exceptions the captions API raises.
ApiErrors ==
  {"TranscriptsDisabled", "NoTranscriptFound", "VideoUnavailable", "RequestFailed"}

\* The three caption-absence conditions.
CaptionAbsence == {"TranscriptsDisabled", "NoTranscriptFound", "VideoUnavailable"}

\* Lines 493-501: the message of the exception that leaves the function.
MapApiError(e) ==
  CASE e = "TranscriptsDisabled" -> "Transcripts are disabled for this video"
    [] e = "NoTranscriptFound" -> "No transcripts found for this video"
    [] e = "VideoUnavailable" -> "Video is unavailable or private"
    [] OTHER -> e

\* The reasons with which yt-dlp's extract_info raises.
YtdlpErrors == {"captions disabled", "download error"}

\* ------------------------------------------------------------------- state
VARIABLES
  YTDLP_AVAILABLE,        \* import yt_dlp succeeded (server.py:36-42)
  YOUTUBE_API_AVAILABLE,  \* import youtube_transcript_api succeeded (26-33)
  route,                  \* the handler serving the request: "convert", "youtube"
  pc,                     \* where the request is
  req_url,                \* the url of the request body
  url,                    \* url after clean_youtube_url
  video_id,               \* get_youtube_transcript's video_id
  subtitles,              \* the offered tracks (exts)
  selected_ext,           \* the ext of the selected track, "" for None
  content,                \* response.text of the subtitle download
  ytdlp_error,            \* the exception caught at line 399, "" when none
  transcript_list,        \* what list_transcripts returned
  transcript,             \* index of the chosen transcript, 0 for None
  alt,                    \* index of alt_transcript in the loop of line 460
  fetch_error,            \* the exception of the first fetch
  fetches,                \* history: the fetch calls made, with their outcome
  calls,                  \* history: the external calls made, in order
  result,                 \* how get_youtube_transcript ended
  response                \* the HTTP response of the handler

\* The state of the file-name sanitizer's harness and of the session store,
\* which the transcript pipeline neither reads nor writes.
VARIABLES
  names,                  \* a file name, then sanitize_filename of the one before
  STORAGE_PATH,           \* the module global of line 48, <<>> for None
  storage_config,         \* the content of STORAGE_CONFIG_FILE (line 49)
  dirs,                   \* the directories of the file system
  files,                  \* the files of the file system, path -> content
  now,                    \* datetime.now(), counted in saves
  saved,                  \* history: the saves that reached the disk, in order
  last_call,              \* history: the request the store answered last
  reply,                  \* the HTTP response of the store's handler
  inflight                \* the save requests that have opened session.json

sanitizeVars == <<names>>

storeVars ==
  <<STORAGE_PATH, storage_config, dirs, files, now, saved, last_call, reply,
    inflight>>

outside == <<sanitizeVars, storeVars>>

pipelineVars ==
  <<YTDLP_AVAILABLE, YOUTUBE_API_AVAILABLE, route, pc, req_url, url, video_id,
    subtitles, selected_ext, content, ytdlp_error, transcript_list, transcript,
    alt, fetch_error, fetches, calls, result, response>>

vars ==
  <<YTDLP_AVAILABLE, YOUTUBE_API_AVAILABLE, route, pc, req_url, url, video_id,
    subtitles, selected_ext, content, ytdlp_error, transcript_list, transcript,
    alt, fetch_error, fetches, calls, result, response,
    names, STORAGE_PATH, storage_config, dirs, files, now, saved, last_call,
    reply, inflight>>

globals == <<YTDLP_AVAILABLE, YOUTUBE_API_AVAILABLE>>

request == <<route, req_url, url, video_id>>

ytdlpLocals == <<subtitles, selected_ext, content, ytdlp_error>>

apiLocals == <<transcript_list, transcript, alt, fetch_error, fetches>>

NoContent == [m3u |-> FALSE, extx |-> FALSE, json_ok |-> FALSE, text |-> <<>>]

NoResult ==
  [kind |-> "none", text |-> <<>>, source |-> "", language |-> "", reason |-> ""]

\* return {'success': True, 'text': ..., 'language': ...}
Success(text, source, language) ==
  [kind |-> "success", text |-> text, source |-> source, language |-> language,
   reason |-> ""]

\* An exception that leaves get_youtube_transcript, with its message.
Raised(reason) ==
  [kind |-> "raised", text |-> <<>>, source |-> "", language |-> "",
   reason |-> reason]

NoResponse == [status |-> 0, error |-> "", message |-> ""]

\* The handler's response to the outcome of get_youtube_transcript: the
\* jsonify of the success, or the except clause's 500.
HandlerResponse(r, res) ==
  IF res.kind = "success"
    THEN [status |-> 200, error |-> "", message |-> ""]
  ELSE [status |-> 500,
        error |-> IF r = "youtube" THEN "YouTube conversion failed"
                  ELSE "YouTube transcript extraction failed",
        message |-> res.reason]

\* get_youtube_transcript returns or raises and the handler responds.
Finish(res) ==
  /\ result' = res
  /\ response' = HandlerResponse(route, res)
  /\ pc' = "done"

\* No file name is being sanitized.
SanitizeIdle == names = <<>>

NoCall == [op |-> "", arg |-> <<>>]

NoReply == [status |-> 0, error |-> "", body |-> <<>>]

\* The session store before the server has started: nothing on disk.
StoreIdle ==
  /\ STORAGE_PATH = <<>>
  /\ storage_config = [kind |-> "missing"]
  /\ dirs = {}
  /\ files = <<>>
  /\ now = 0
  /\ saved = <<>>
  /\ last_call = NoCall
  /\ reply = NoReply
  /\ inflight = {}

Init ==
  /\ SanitizeIdle
  /\ StoreIdle
  /\ YTDLP_AVAILABLE \in BOOLEAN
  /\ YOUTUBE_API_AVAILABLE \in BOOLEAN
  /\ route = ""
  /\ pc = "idle"
  /\ req_url = <<>>
  /\ url = <<>>
  /\ video_id = <<>>
  /\ subtitles = <<>>
  /\ selected_ext = ""
  /\ content = NoContent
  /\ ytdlp_error = ""
  /\ transcript_list = <<>>
  /\ transcript = 0
  /\ alt = 0
  /\ fetch_error = ""
  /\ fetches = <<>>
  /\ calls = <<>>
  /\ result = NoResult
  /\ response = NoResponse

\* No request is in the transcript pipeline.
PipelineIdle ==
  /\ YTDLP_AVAILABLE = TRUE
  /\ YOUTUBE_API_AVAILABLE = TRUE
  /\ route = ""
  /\ pc = "idle"
  /\ req_url = <<>>
  /\ url = <<>>
  /\ video_id = <<>>
  /\ subtitles = <<>>
  /\ selected_ext = ""
  /\ content = NoContent
  /\ ytdlp_error = ""
  /\ transcript_list = <<>>
  /\ transcript = 0
  /\ alt = 0
  /\ fetch_error = ""
  /\ fetches = <<>>
  /\ calls = <<>>
  /\ result = NoResult
  /\ response = NoResponse

\* ---------------------------------------------------------------- handlers
\* A handler answers without calling get_youtube_transcript.
Reject(r, u, status, error) ==
  /\ route' = r
  /\ req_url' = u
  /\ response' = [status |-> status, error |-> error, message |-> ""]
  /\ pc' = "done"
  /\ UNCHANGED <<url, video_id, result>>

\* url = clean_youtube_url(url); result = get_youtube_transcript(url), up to
\* the first external call: video_id is extracted, and a missing one raises
\* ValueError, which the handler's except clause answers.
EnterTranscript(r, u) ==
  LET cleaned == clean_youtube_url(u)
      id == extract_youtube_video_id(cleaned)
  IN /\ route' = r
     /\ req_url' = u
     /\ url' = cleaned
     /\ video_id' = id
     /\ IF id = <<>>
          THEN /\ result' = Raised("Could not extract video ID from URL")
               /\ response' = HandlerResponse(r, result')
               /\ pc' = "done"
          ELSE /\ result' = NoResult
               /\ response' = NoResponse
               /\ pc' = IF YTDLP_AVAILABLE THEN "ytdlp" ELSE "fallback"

\* POST /youtube with the JSON body {'url': u} (NoUrl: no 'url' in the body).
convert_youtube ==
  /\ pc = "idle"
  /\ \E u \in RequestUrls :
       IF ~YOUTUBE_API_AVAILABLE
         THEN Reject("youtube", u, 500, "YouTube transcript API not installed")
       ELSE IF u = NoUrl
         THEN Reject("youtube", u, 400, "Missing YouTube URL")
       ELSE IF ~Contains(u, "youtube.com") /\ ~Contains(u, "youtu.be")
         THEN Reject("youtube", u, 400, "Invalid YouTube URL")
       ELSE EnterTranscript("youtube", u)
  /\ UNCHANGED <<globals, ytdlpLocals, apiLocals, calls>>
  /\ UNCHANGED outside

\* POST /convert with the JSON body {'url': u}, u a YouTube URL, on a server
\* with MarkItDown installed (the other requests go to MarkItDown).
convert_file ==
  /\ pc = "idle"
  /\ \E u \in RequestUrls :
       /\ Contains(u, "youtube.com") \/ Contains(u, "youtu.be")
       /\ EnterTranscript("convert", u)
  /\ UNCHANGED <<globals, ytdlpLocals, apiLocals, calls>>
  /\ UNCHANGED outside

\* The request is over; the server waits for the next one.
NextRequest ==
  /\ pc = "done"
  /\ pc' = "idle"
  /\ route' = ""
  /\ req_url' = <<>>
  /\ url' = <<>>
  /\ video_id' = <<>>
  /\ subtitles' = <<>>
  /\ selected_ext' = ""
  /\ content' = NoContent
  /\ ytdlp_error' = ""
  /\ transcript_list' = <<>>
  /\ transcript' = 0
  /\ alt' = 0
  /\ fetch_error' = ""
  /\ fetches' = <<>>
  /\ calls' = <<>>
  /\ result' = NoResult
  /\ response' = NoResponse
  /\ UNCHANGED globals
  /\ UNCHANGED outside

\* ------------------------------------------- get_youtube_transcript: yt-dlp
\* The url is not read after line 260 (the 'url' field of the response is not
\* modelled): it is dropped with the first step of the function.
ForgetUrl ==
  /\ req_url' = <<>>
  /\ url' = <<>>
  /\ UNCHANGED <<route, video_id>>

\* The handler of line 399 as the claimed circuit breaker: a 'captions
\* disabled' failure ends the call, any other falls back.
YtdlpFailedHard(reason) ==
  /\ ytdlp_error' = reason
  /\ IF reason = "captions disabled"
       THEN Finish(Raised(reason))
       ELSE /\ pc' = "fallback"
            /\ UNCHANGED <<result, response>>

\* except Exception as ytdlp_error: logger.warning(...) (lines 399-400): the
\* exception is logged and control goes on to the fallback.
YtdlpFailed(reason) ==
  /\ ytdlp_error' = reason
  /\ pc' = "fallback"
  /\ UNCHANGED <<result, response>>

\* The try block that ends the call when it has found nothing.
YtdlpNothingRaises ==
  /\ Finish(Raised("No subtitles found"))
  /\ UNCHANGED ytdlp_error

\* The try block ends without a return and without an exception: no
\* subtitles, no subtitle_url, or a status code other than 200.
YtdlpNothing ==
  /\ pc' = "fallback"
  /\ UNCHANGED <<ytdlp_error, result, response>>

\* ydl.extract_info(...) and the choice of the track (lines 276-305).
ExtractInfo ==
  /\ pc = "ytdlp"
  /\ calls' = Append(calls, "extract_info")
  /\ ForgetUrl
  /\ \/ \E e \in YtdlpErrors :
          /\ YtdlpFailed(e)
          /\ UNCHANGED <<subtitles, selected_ext>>
     \/ \E info \in Infos :
          LET subs == EnglishSubtitles(info)
              k == SelectTrack(subs)
          IN /\ subtitles' = subs
             /\ IF k = 0
                  THEN /\ selected_ext' = ""
                       /\ YtdlpNothing
                  ELSE /\ selected_ext' = subs[k]
                       /\ pc' = "download"
                       /\ UNCHANGED <<ytdlp_error, result, response>>
  /\ UNCHANGED <<globals, content, apiLocals>>
  /\ UNCHANGED outside

\* Lines 313-398 for a 200 response with the given body: the playlist sniff,
\* the parser of the selected format, the clean-up and the length test.
Decode(body) ==
  IF IsPlaylist(body)
    THEN YtdlpFailed("M3U8 playlist received instead of subtitles")
  ELSE IF selected_ext = "json3" /\ ~body.json_ok
    THEN YtdlpFailed("JSON3 parsing failed")
  ELSE IF Meaningful(CleanText(body.text))
    THEN /\ Finish(Success(CleanText(body.text), "yt-dlp", "en"))
         /\ UNCHANGED ytdlp_error
  ELSE YtdlpFailed("Insufficient content extracted")

\* requests.get(subtitle_url, timeout=30) and what follows (lines 307-398).
Download ==
  /\ pc = "download"
  /\ calls' = Append(calls, "requests.get")
  /\ subtitles' = <<>>
  /\ \/ /\ YtdlpFailed("request failed")
        /\ content' = NoContent
     \/ /\ YtdlpNothing
        /\ content' = NoContent
     \/ \E body \in Bodies :
          /\ content' = body
          /\ Decode(body)
  /\ UNCHANGED <<globals, request, selected_ext, apiLocals>>
  /\ UNCHANGED outside

\* ------------------------------------- get_youtube_transcript: captions API
\* Lines 402-404: without the captions API the call ends here. The locals of
\* the yt-dlp block are not read again.
Fallback ==
  /\ pc = "fallback"
  /\ ForgetUrl
  /\ subtitles' = <<>>
  /\ selected_ext' = ""
  /\ content' = NoContent
  /\ IF ~YOUTUBE_API_AVAILABLE
       THEN Finish(Raised("No YouTube transcript extraction method available"))
       ELSE /\ pc' = "simple"
            /\ UNCHANGED <<result, response>>
  /\ UNCHANGED <<globals, ytdlp_error, apiLocals, calls>>
  /\ UNCHANGED outside

\* YouTubeTranscriptApi.get_transcript(video_id, languages=[...]) (lines
\* 408-426): its text is returned as it is; any exception is swallowed.
GetTranscript ==
  /\ pc = "simple"
  /\ calls' = Append(calls, "get_transcript")
  /\ \/ \E data \in TranscriptData :
          Finish(Success(JoinLines(data), "simple", "en"))
     \/ \E e \in ApiErrors :
          /\ pc' = "list"
          /\ UNCHANGED <<result, response>>
  /\ UNCHANGED <<globals, request, ytdlpLocals, apiLocals>>
  /\ UNCHANGED outside

\* YouTubeTranscriptApi.list_transcripts(video_id) and the choice of the
\* transcript (lines 428-449); an exception reaches the handlers of 493-501.
ListTranscripts ==
  /\ pc = "list"
  /\ calls' = Append(calls, "list_transcripts")
  /\ \/ \E e \in ApiErrors :
          /\ Finish(Raised(MapApiError(e)))
          /\ UNCHANGED <<transcript_list, transcript>>
     \/ \E tl \in TranscriptLists :
          /\ transcript_list' = tl
          /\ transcript' = ChooseTranscript(tl)
          /\ IF ChooseTranscript(tl) = 0
               THEN Finish(Raised(MapApiError("NoTranscriptFound")))
               ELSE /\ pc' = "fetch"
                    /\ UNCHANGED <<result, response>>
  /\ UNCHANGED <<globals, request, ytdlpLocals, alt, fetch_error, fetches>>
  /\ UNCHANGED outside

\* The exceptions a fetch raises.
FetchErrors == {"TranscriptsDisabled", "VideoUnavailable", "RequestFailed"}

\* A fetch call on transcript k with its outcome ("" for success).
Fetched(k, e) == fetches' = Append(fetches, [track |-> k, error |-> e])

\* transcript.fetch() (lines 451-459): any exception starts the loop over
\* all the listed transcripts.
Fetch ==
  /\ pc = "fetch"
  /\ calls' = Append(calls, "fetch")
  /\ \/ \E data \in TranscriptData :
          /\ Fetched(transcript, "")
          /\ Finish(Success(JoinLines(data), "track",
                            transcript_list[transcript].language))
          /\ UNCHANGED <<alt, fetch_error>>
     \/ \E e \in FetchErrors :
          /\ Fetched(transcript, e)
          /\ fetch_error' = e
          /\ alt' = 1
          /\ pc' = "alt"
          /\ UNCHANGED <<result, response>>
  /\ UNCHANGED <<globals, request, ytdlpLocals, transcript_list, transcript>>
  /\ UNCHANGED outside

\* The loop that breaks off after its first failed fetch.
AltGivesUp(i, tl) == TRUE

\* for alt_transcript in all_transcripts ... else: the loop is over when the
\* last listed transcript has been tried.
AltExhausted(i, tl) == i >= Len(tl)

\* alt_transcript.fetch() (lines 460-472): one turn of the loop.
AltFetch ==
  /\ pc = "alt"
  /\ calls' = Append(calls, "fetch")
  /\ \/ \E data \in TranscriptData :
          /\ Fetched(alt, "")
          /\ transcript' = alt
          /\ Finish(Success(JoinLines(data), "track",
                            transcript_list[alt].language))
          /\ UNCHANGED alt
     \/ \E e \in FetchErrors :
          /\ Fetched(alt, e)
          /\ UNCHANGED transcript
          /\ IF AltExhausted(alt, transcript_list)
               THEN /\ Finish(Raised("Could not fetch transcript"))
                    /\ UNCHANGED alt
               ELSE /\ alt' = alt + 1
                    /\ UNCHANGED <<pc, result, response>>
  /\ UNCHANGED <<globals, request, ytdlpLocals, transcript_list, fetch_error>>
  /\ UNCHANGED outside

Next ==
  \/ convert_youtube
  \/ convert_file
  \/ ExtractInfo
  \/ Download
  \/ Fallback
  \/ GetTranscript
  \/ ListTranscripts
  \/ Fetch
  \/ AltFetch
  \/ NextRequest

Spec == Init /\ [][Next]_vars

\* ------------------------------------------------------------------ claims
\* The external call c was made during the request.
Called(c) == \E i \in 1..Len(calls) : calls[i] = c

\* The calls of the captions API.
ApiCalls == {"get_transcript", "list_transcripts", "fetch"}

\* The messages with which the captions-API block ends the call.
ApiReasons ==
  {MapApiError(e) : e \in ApiErrors} \cup {"Could not fetch transcript"}

C3_SuccessPassedGate ==
  result.kind = "success" =>
    /\ ~IsBlank(result.text)
    /\ TextLen(result.text) >= MIN_TRANSCRIPT_LEN

\* C4: the selected track never has the ext m3u8, and a downloaded body that
\* starts with '#EXTM3U' or contains '#EXT-X-' gives no result: the failure
\* is logged and control is at the fallback to the captions API.
C4_PlaylistRefused ==
  /\ selected_ext # "m3u8"
  /\ pc = "download" => \E i \in 1..Len(subtitles) : subtitles[i] = selected_ext
  /\ (content.m3u \/ content.extx) =>
       /\ pc = "fallback"
       /\ result.kind = "none"
       /\ response = NoResponse
       /\ ytdlp_error = "M3U8 playlist received instead of subtitles"

\* C4 witness: a track tagged vtt was selected and its body, without the
\* playlist header, holds an '#EXT-X-' marker and a long enough text.
C4_Witness ==
  /\ pc = "fallback"
  /\ selected_ext = "vtt"
  /\ ~content.m3u
  /\ content.extx
  /\ content.text = <<N(MIN_TRANSCRIPT_LEN + 1)>>
  /\ ytdlp_error = "M3U8 playlist received instead of subtitles"

\* The exts offered.
Offered == {subtitles[i] : i \in 1..Len(subtitles)}

\* The ext of the first offered track that is not a playlist.
FirstOtherExt ==
  subtitles[Min({i \in 1..Len(subtitles) : subtitles[i] # "m3u8"})]

\* C5, as claimed: json3 first, then any of srv1, srv2, srv3, then vtt, then
\* any other track that is not a playlist.
C5_XmlBeforeWebVtt ==
  pc = "download" =>
    /\ "json3" \in Offered => selected_ext = "json3"
    /\ ("json3" \notin Offered /\ Offered \cap {"srv1", "srv2", "srv3"} # {})
         => selected_ext \in {"srv1", "srv2", "srv3"}
    /\ selected_ext = "vtt" =>
         Offered \cap {"json3", "srv1", "srv2", "srv3"} = {}

\* C5, amended: the order is json3, srv3, vtt, srv2, srv1, then the first
\* track that is not a playlist; a vtt track is chosen only when neither a
\* json3 nor a srv3 track is offered; when no track is selected every
\* offered track is a playlist.
C5_PriorityOrder ==
  /\ pc = "download" =>
       /\ selected_ext =
            IF "json3" \in Offered THEN "json3"
            ELSE IF "srv3" \in Offered THEN "srv3"
            ELSE IF "vtt" \in Offered THEN "vtt"
            ELSE IF "srv2" \in Offered THEN "srv2"
            ELSE IF "srv1" \in Offered THEN "srv1"
            ELSE FirstOtherExt
       /\ selected_ext = "vtt" => Offered \cap {"json3", "srv3"} = {}
  /\ (pc = "fallback" /\ calls = <<"extract_info">>) => Offered \subseteq {"m3u8"}

\* C5 witness: vtt is selected although a srv1 track is offered before it.
C5_Witness ==
  /\ pc = "download"
  /\ subtitles = <<"srv1", "vtt">>
  /\ selected_ext = "vtt"

\* The listed transcripts with a failed fetch.
FailedTracks ==
  {fetches[i].track : i \in {j \in 1..Len(fetches) : fetches[j].error # ""}}

\* C6: after a failed get_transcript and a successful listing, the first
\* fetch is of the English transcript (else of the first listed one); a
\* fetch that succeeds is the last one and makes the call a success with the
\* language of the fetched transcript; the call fails only when the fetch of
\* every listed transcript has failed; and at most one fetch more than there
\* are listed transcripts is made.
C6_TracksTriedUntilOneSucceeds ==
  /\ fetches # <<>> =>
       /\ Called("list_transcripts")
       /\ IF \E k \in 1..Len(transcript_list) :
               transcript_list[k].language \in {"en", "en-US", "en-GB"}
            THEN transcript_list[fetches[1].track].language
                   \in {"en", "en-US", "en-GB"}
            ELSE fetches[1].track = 1
  /\ \A i \in 1..Len(fetches) :
       /\ fetches[i].track \in 1..Len(transcript_list)
       /\ fetches[i].error = "" =>
            /\ i = Len(fetches)
            /\ pc = "done"
            /\ result.kind = "success"
            /\ result.source = "track"
            /\ result.language = transcript_list[fetches[i].track].language
  /\ (pc = "done" /\ transcript_list # <<>> /\ result.kind = "raised") =>
       /\ FailedTracks = 1..Len(transcript_list)
       /\ \A i \in 1..Len(fetches) : fetches[i].error # ""
  /\ Len(fetches) <= Len(transcript_list) + 1

\* C6 witness: of two listed transcripts the English one is the second; its
\* fetch failed twice and the fetch of the other one failed too, and only
\* then the call failed.
C6_Witness ==
  /\ pc = "done"
  /\ Len(transcript_list) = 2
  /\ transcript_list[2].language = "en"
  /\ Len(fetches) = 3
  /\ fetches[1].track = 2
  /\ fetches[2].track = 1
  /\ fetches[3].track = 2
  /\ result = Raised("Could not fetch transcript")

\* C7, as claimed: a caption-absence exception, raised by the listing, the
\* selection or a fetch, ends the call with the message of that condition,
\* and no further transcript is tried.
C7_CaptionAbsenceIsTerminal ==
  /\ \A i \in 1..Len(fetches) :
       fetches[i].error \in CaptionAbsence =>
         /\ i = Len(fetches)
         /\ pc = "done"
         /\ result = Raised(MapApiError(fetches[i].error))
  /\ (pc = "done" /\ Called("list_transcripts") /\ fetches = <<>>) =>
       result.reason \in ApiReasons

\* C8, as claimed: a call that got past the video id ends in a success or a
\* raised failure, and a failure of a call in which yt-dlp was the only
\* strategy tried carries the reason with which the yt-dlp block failed.
C8_FailureCarriesLastReason ==
  (pc = "done" /\ video_id # <<>>) =>
    /\ result.kind \in {"success", "raised"}
    /\ (/\ result.kind = "raised"
        /\ ytdlp_error # ""
        /\ \A i \in 1..Len(calls) : calls[i] \notin ApiCalls)
         => result.reason = ytdlp_error

\* The handler has passed the url to clean_youtube_url and
\* get_youtube_transcript.
Entered == url # <<>>

\* C9, as claimed: for the short and the long form of a video's URL, with
\* any extra parameters, the id extracted is the video's, the cleaned URL is
\* the watch URL of that id, and cleaning and extracting again change nothing.
C9_NormalizationIgnoresParameters ==
  \A id \in VideoIds, ps \in ParamLists :
    (Entered /\ req_url \in VideoUrls(id, ps)) =>
      /\ extract_youtube_video_id(req_url) = id
      /\ video_id = id
      /\ url = WatchUrl(id)
      /\ clean_youtube_url(url) = url
      /\ extract_youtube_video_id(url) = id

\* C10, as claimed: a request to /youtube whose url names a YouTube host and
\* holds no video id is answered with status 400.
C10_MissingIdIsCallerError ==
  (/\ pc = "done"
   /\ route = "youtube"
   /\ Entered
   /\ Contains(req_url, "youtube.com") \/ Contains(req_url, "youtu.be")
   /\ extract_youtube_video_id(req_url) = <<>>)
    => response.status = 400

\* The yt-dlp block returned the downloaded text.
GateAccepted ==
  pc = "done" /\ result.kind = "success" /\ result.source = "yt-dlp"

\* The yt-dlp block refused the downloaded text as too short.
GateRejected ==
  pc = "fallback" /\ ytdlp_error = "Insufficient content extracted"

\* The subtitle download has just answered with a body that is no playlist
\* and that the parser of the selected format took.
BodyDecoded ==
  /\ pc \in {"done", "fallback"}
  /\ calls # <<>>
  /\ calls[Len(calls)] = "requests.get"
  /\ ~content.m3u
  /\ ~content.extx
  /\ selected_ext = "json3" => content.json_ok

\* C19 as claimed: a decoded text of 50 characters or more, exactly 50
\* included, passes the quality gate of the yt-dlp block.
C19_GateAcceptsAtThreshold ==
  (BodyDecoded /\ TextLen(CleanText(content.text)) >= MIN_TRANSCRIPT_LEN)
    => GateAccepted

\* C19: the quality gate of the yt-dlp block rejects the empty text and every
\* text of at most 50 characters, exactly 50 included, and accepts every text
\* of 51 characters or more; it decides every decoded body with a text.
C19_GateAcceptsAboveThreshold ==
  /\ GateAccepted => TextLen(result.text) > MIN_TRANSCRIPT_LEN
  /\ GateRejected => TextLen(CleanText(content.text)) <= MIN_TRANSCRIPT_LEN
  /\ (BodyDecoded /\ TextLen(CleanText(content.text)) > MIN_TRANSCRIPT_LEN)
       => GateAccepted
  /\ (BodyDecoded /\ content.text # <<>>
        /\ TextLen(CleanText(content.text)) <= MIN_TRANSCRIPT_LEN)
       => GateRejected

\* C19 witness: a text of exactly 50 characters was refused.
C19_Witness ==
  /\ BodyDecoded
  /\ GateRejected
  /\ content.text = <<N(MIN_TRANSCRIPT_LEN)>>

\* ======================================================= sanitize_filename
\* A file name is the sequence of its characters, each a one-character
\* string.

\* if len(filename) > 255 (server.py:96)
MAX_FILENAME_LEN == 255

\* Runs of equal characters a generated file name is made of.
MaxRuns == 3

\* The greatest element of a non-empty set of integers.
Max(S) == 0 - Min({0 - x : x \in S})

\* c * n
Rep(c, n) == [i \in 1..n |-> c]

RECURSIVE Concat(_)
\* ''.join(parts)
Concat(parts) ==
  IF parts = <<>> THEN <<>> ELSE Head(parts) \o Concat(Tail(parts))

\* s.startswith(p)
StartsWith(s, p) == Len(s) >= Len(p) /\ SubSeq(s, 1, Len(p)) = p

\* needle in s
InStr(needle, s) ==
  \E i \in 1..(Len(s) - Len(needle) + 1) :
    SubSeq(s, i, i + Len(needle) - 1) = needle

\* The index of the first character of cs in s at or after from, Len(s) + 1
\* when there is none (str.find).
FirstOf(s, cs, from) ==
  LET found == {i \in from..Len(s) : s[i] \in cs}
  IN IF found = {} THEN Len(s) + 1 ELSE Min(found)

\* s.strip(cs)
StripChars(s, cs) ==
  LET kept == {i \in 1..Len(s) : s[i] \notin cs}
  IN IF kept = {} THEN <<>> ELSE SubSeq(s, Min(kept), Max(kept))

\* s[:k], k negative counting from the end.
Prefix(s, k) ==
  IF k >= 0
    THEN SubSeq(s, 1, IF k < Len(s) THEN k ELSE Len(s))
  ELSE SubSeq(s, 1, IF Len(s) + k > 0 THEN Len(s) + k ELSE 0)

RECURSIVE SplitOn(_, _)
\* s.split(c)
SplitOn(s, c) ==
  LET i == FirstOf(s, {c}, 1)
  IN IF i > Len(s)
       THEN <<s>>
     ELSE <<SubSeq(s, 1, i - 1)>> \o SplitOn(SubSeq(s, i + 1, Len(s)), c)

\* s.replace(a, b), a and b one character each.
ReplaceChar(s, a, b) == [i \in 1..Len(s) |-> IF s[i] = a THEN b ELSE s[i]]

\* [p for p in parts if p]
NonEmpty(parts) == SelectSeq(parts, LAMBDA p : p # <<>>)

\* The characters \x00-\x1f, by four of them.
ControlChars == {"\t", "\n", "\r", "\f"}

\* The character class of the pattern of line 86.
ReservedChars ==
  {"<", ">", ":", "\"", "/", "\\", "|", "?", "*"} \cup ControlChars

\* A sanitizer that leaves the reserved characters in place.
KeepReserved(s) == s

\* re.sub(r'[<>:"/\\|?*\x00-\x1f]', '_', filename) (line 86)
ReplaceReserved(s) ==
  [i \in 1..Len(s) |-> IF s[i] \in ReservedChars THEN "_" ELSE s[i]]

\* os.path.splitext(p): the extension starts at the last dot that follows the
\* last separator and has a character other than a dot before it in the base
\* name.
splitext(p) ==
  LET seps == {i \in 1..Len(p) : p[i] = "/"}
      dots == {i \in 1..Len(p) : p[i] = "."}
      sepIndex == IF seps = {} THEN 0 ELSE Max(seps)
      dotIndex == IF dots = {} THEN 0 ELSE Max(dots)
  IN IF /\ dotIndex > sepIndex
        /\ \E i \in (sepIndex + 1)..(dotIndex - 1) : p[i] # "."
       THEN <<SubSeq(p, 1, dotIndex - 1), SubSeq(p, dotIndex, Len(p))>>
     ELSE <<p, <<>>>>

\* Lines 96-101: a name longer than 255 characters is cut, its extension kept.
Truncate(filename) ==
  IF Len(filename) > MAX_FILENAME_LEN
    THEN LET name == splitext(filename)[1]
             ext == splitext(filename)[2]
         IN IF ext # <<>>
              THEN Prefix(name, MAX_FILENAME_LEN - Len(ext)) \o ext
            ELSE Prefix(filename, MAX_FILENAME_LEN)
  ELSE filename

HTTP == <<"h", "t", "t", "p", ":", "/", "/">>

HTTPS == <<"h", "t", "t", "p", "s", ":", "/", "/">>

FTP == <<"f", "t", "p", ":", "/", "/">>

\* filename.startswith(('http://', 'https://', 'ftp://')) (line 59)
IsUrl(filename) == \E p \in {HTTP, HTTPS, FTP} : StartsWith(filename, p)

youtube_com == <<"y", "o", "u", "t", "u", "b", "e", ".", "c", "o", "m">>

youtu_be == <<"y", "o", "u", "t", "u", ".", "b", "e">>

youtube_ == <<"y", "o", "u", "t", "u", "b", "e", "_">>

txt == <<".", "t", "x", "t">>

youtube_video_txt == youtube_ \o <<"v", "i", "d", "e", "o">> \o txt

url_content_txt ==
  <<"u", "r", "l", "_", "c", "o", "n", "t", "e", "n", "t">> \o txt

unnamed_file ==
  <<"u", "n", "n", "a", "m", "e", "d", "_", "f", "i", "l", "e">>

\* urllib.parse.urlparse of a url that starts with one of the three schemes:
\* the netloc runs from '://' to the first of '/', '?', '#'; the fragment
\* starts at the first '#', the query at the first '?' before it, the
\* parameters at the first ';' of the last path segment. A bracket without
\* its partner in the netloc raises ValueError.
urlparse(s) ==
  LET start == FirstOf(s, {":"}, 1) + 3
      stop == FirstOf(s, {"/", "?", "#"}, start)
      netloc == SubSeq(s, start, stop - 1)
      hash == FirstOf(s, {"#"}, stop)
      qm == FirstOf(SubSeq(s, 1, hash - 1), {"?"}, stop)
      whole == SubSeq(s, stop, qm - 1)
      slashes == {i \in 1..Len(whole) : whole[i] = "/"}
      semi == FirstOf(whole, {";"}, IF slashes = {} THEN 1 ELSE Max(slashes))
  IN [ok |-> InStr(<<"[">>, netloc) <=> InStr(<<"]">>, netloc),
      netloc |-> netloc,
      path |-> SubSeq(whole, 1, semi - 1),
      query |-> SubSeq(s, qm + 1, hash - 1)]

\* parse_qs(query).get(key, [None])[0]: the first non-blank value of the key
\* among the '&'-separated pairs, <<>> for None.
QsGet(query, key) ==
  LET pairs == SelectSeq(SplitOn(query, "&"),
                         LAMBDA nv : /\ StartsWith(nv, key \o <<"=">>)
                                     /\ Len(nv) > Len(key) + 1)
  IN IF pairs = <<>>
       THEN <<>>
     ELSE SubSeq(pairs[1], Len(key) + 2, Len(pairs[1]))

\* Lines 60-83: the synthetic name of a URL.
UrlName(filename) ==
  LET parsed == urlparse(filename)
      the_video_id ==
        IF InStr(youtu_be, parsed.netloc)
          THEN StripChars(parsed.path, {"/"})
        ELSE IF InStr(<<"v", "=">>, parsed.query)
          THEN QsGet(parsed.query, <<"v">>)
        ELSE <<>>
      path_parts == NonEmpty(SplitOn(parsed.path, "/"))
  IN IF ~parsed.ok
       THEN url_content_txt
     ELSE IF InStr(youtube_com, parsed.netloc) \/ InStr(youtu_be, parsed.netloc)
       THEN IF the_video_id # <<>>
              THEN youtube_ \o the_video_id \o txt
            ELSE youtube_video_txt
     ELSE IF path_parts # <<>>
       THEN path_parts[Len(path_parts)]
     ELSE ReplaceChar(parsed.netloc, ".", "_") \o txt

\* sanitize_filename(filename) (lines 51-103)
sanitize_filename(filename) ==
  LET derived == IF IsUrl(filename) THEN UrlName(filename) ELSE filename
      stripped == StripChars(ReplaceReserved(derived), {".", " "})
  IN Truncate(IF stripped = <<>> THEN unnamed_file ELSE stripped)

\* ------------------------------------------------- the names it is given
RunChars == {"a", " ", ".", ":"}

\* Run lengths on both sides of the limit of line 96.
RunLens == {1, MAX_FILENAME_LEN - 1, MAX_FILENAME_LEN + 1}

Runs == {Rep(c, n) : c \in RunChars, n \in RunLens}

\* Plain names of up to MaxRuns runs.
PlainNames == {Concat(rs) : rs \in SeqsUpTo(Runs, MaxRuns)}

\* 'my file:name?.txt'
MyFileName ==
  <<"m", "y", " ", "f", "i", "l", "e", ":", "n", "a", "m", "e", "?">> \o txt

\* 'my file_name_.txt'
MyFileNameSanitized ==
  <<"m", "y", " ", "f", "i", "l", "e", "_", "n", "a", "m", "e", "_">> \o txt

ExampleNames ==
  {MyFileName, <<"a", "\t", "b">>, <<"\n", "a", "\r", "\f">>,
   <<"<", ">", "\"", "\\", "|", "*", "/">>, <<".", ".", "/", "a">>}

UrlHosts ==
  {youtu_be, <<"w", "w", "w", ".">> \o youtube_com, <<"h", ".", "i", "o">>,
   <<"h", ":", "8", "0">>, <<"[", "h">>}

UrlPaths ==
  {<<>>, <<"/">>, <<"/", "a">>, <<"/", "a", "/", "b", ".", "c">>,
   <<"/", ".", ".">>, <<"/", "a", ";", "b">>, <<"/", "a", " ">>,
   <<"/">> \o Rep("a", MAX_FILENAME_LEN + 1)}

UrlQueries ==
  {<<>>, <<"?", "v", "=", "x">>, <<"?", "t", "=", "1", "&", "v", "=", "x", "/", "y">>,
   <<"?", "v", "=">>, <<"?", "v", "=", "x", "#", "f">>}

UrlNames ==
  {scheme \o host \o path \o query :
     scheme \in {HTTP, HTTPS, FTP}, host \in UrlHosts,
     path \in UrlPaths, query \in UrlQueries}

FileNames == PlainNames \cup ExampleNames \cup UrlNames

\* ------------------------------------------- sanitize_filename, applied
SanitizeInit ==
  /\ PipelineIdle
  /\ StoreIdle
  /\ \E filename \in FileNames : names = <<filename>>

\* filename = sanitize_filename(filename), at most twice.
Sanitize ==
  /\ Len(names) \in 1..2
  /\ names' = Append(names, sanitize_filename(names[Len(names)]))
  /\ UNCHANGED <<pipelineVars, storeVars>>

SanitizeNext == Sanitize

SpecSanitize == SanitizeInit /\ [][SanitizeNext]_vars

\* C11: sanitizing a name that sanitize_filename returned changes nothing,
\* whatever the first input was (plain, longer than 255 characters, a URL).
C11_SanitizeIdempotent == Len(names) = 3 => names[3] = names[2]

\* C12: the name sanitize_filename returns is at most 255 characters long,
\* for every input.
C12_LengthBounded == Len(names) >= 2 => Len(names[2]) <= MAX_FILENAME_LEN

\* C13: a name sanitize_filename returns is not empty and has none of the
\* reserved characters; a plain name that fits the limit and has no dot or
\* space at its ends comes back with each reserved character replaced by one
\* underscore, 'my file:name?.txt' as 'my file_name_.txt'.
C13_NoReservedCharacters ==
  /\ \A i \in 2..Len(names) :
       /\ names[i] # <<>>
       /\ \A k \in 1..Len(names[i]) : names[i][k] \notin ReservedChars
  /\ ( /\ Len(names) >= 2
       /\ ~IsUrl(names[1])
       /\ Len(names[1]) \in 1..MAX_FILENAME_LEN
       /\ names[1][1] \notin {".", " "}
       /\ names[1][Len(names[1])] \notin {".", " "} )
     => /\ Len(names[2]) = Len(names[1])
        /\ \A k \in 1..Len(names[1]) :
             names[2][k] =
               IF names[1][k] \in ReservedChars THEN "_" ELSE names[1][k]
  /\ (Len(names) >= 2 /\ names[1] = MyFileName)
     => names[2] = MyFileNameSanitized

C13_Witness ==
  /\ Len(names) >= 2
  /\ names[1] = MyFileName
  /\ names[2] = MyFileNameSanitized

\* =========================================================== session store
\* A path is the sequence of its components, each the sequence of its
\* characters; an absolute path starts with the component '/'. A file's
\* content is a record: [kind |-> "json", ...] for a JSON document,
\* [kind |-> "torn"] for one cut short, [kind |-> "data", ...] for the rest.

\* Saves that reach the disk in one run of the server.
MaxSaves == 2

ROOT == <<"/">>

chat_ == <<"c", "h", "a", "t", "_">>

session_json ==
  <<"s", "e", "s", "s", "i", "o", "n", ".", "j", "s", "o", "n">>

uploads == <<"u", "p", "l", "o", "a", "d", "s">>

\* pathlib's parsing of a path string: empty and '.' components are dropped.
Parts(s) == SelectSeq(SplitOn(s, "/"), LAMBDA p : p # <<>> /\ p # <<".">>)

RECURSIVE Resolve(_)
\* The place the operating system reaches along the components: '..' is the
\* parent directory, the root its own parent.
Resolve(parts) ==
  IF parts = <<>>
    THEN <<>>
  ELSE LET up == Resolve(SubSeq(parts, 1, Len(parts) - 1))
           last == parts[Len(parts)]
       IN IF last = <<".", ".">>
            THEN IF Len(up) > 1 THEN SubSeq(up, 1, Len(up) - 1) ELSE up
          ELSE Append(up, last)

\* Path.mkdir(parents=True, exist_ok=True): the directories along the path.
Mkdirs(parts) == {Resolve(SubSeq(parts, 1, k)) : k \in 1..Len(parts)}

\* open(path, 'w') and the write: the file has the content, whatever it had.
Write(fs, path, data) == (path :> data) @@ fs

\* A guard that never refuses.
UnsetNever(value) == FALSE

\* not value, for None and for the empty string.
Unset(value) == value = <<>>

\* --------------------------------------------------------- storage config
\* The directories a client asks for: none, one that can be made, and the
\* place of a regular file.
RequestPaths == {<<>>, <<ROOT, <<"d">>>>, <<ROOT, <<"f">>>>}

\* What save_storage_config does to the file: it writes it, open() raises,
\* or the write raises after open() has truncated it.
ConfigWrites == {"written", "refused", "torn"}

\* save_storage_config(path) (lines 118-125); the exception is logged.
save_storage_config(path, outcome) ==
  storage_config' =
    CASE outcome = "written" -> [kind |-> "json", storage_path |-> path]
      [] outcome = "refused" -> storage_config
      [] outcome = "torn" -> [kind |-> "torn"]

\* load_storage_config() (lines 105-116), run when the module is imported
\* (line 128) by a server that starts with STORAGE_PATH = None.
load_storage_config ==
  /\ STORAGE_PATH' =
       IF storage_config.kind = "json" THEN storage_config.storage_path
       ELSE <<>>
  /\ last_call' = [op |-> "restart", arg |-> <<>>]
  /\ reply' = NoReply
  /\ UNCHANGED <<storage_config, dirs, files, now, saved>>
  /\ UNCHANGED <<pipelineVars, sanitizeVars, inflight>>

\* A failure of set_storage_path that comes with the root already assigned.
SetFailedLate(path, error) ==
  /\ reply' = [status |-> 400, error |-> error, body |-> <<>>]
  /\ STORAGE_PATH' = path
  /\ UNCHANGED storage_config

\* return jsonify({'success': False, 'error': ...}), 400 (lines 825-845)
SetFailed(path, error) ==
  /\ reply' = [status |-> 400, error |-> error, body |-> <<>>]
  /\ UNCHANGED <<STORAGE_PATH, storage_config>>

\* POST /set_storage_path with {'path': path} (lines 815-857): mkdir may
\* raise, and so may the write test, which leaves nothing behind when it
\* works.
set_storage_path ==
  /\ \E path \in RequestPaths :
       /\ last_call' = [op |-> "set_storage_path", arg |-> path]
       /\ IF Unset(path)
            THEN /\ SetFailed(path, "No path provided")
                 /\ UNCHANGED dirs
          ELSE IF path \in DOMAIN files
            THEN /\ SetFailed(path, "Path is not a directory")
                 /\ UNCHANGED dirs
          ELSE \/ /\ path \notin dirs
                  /\ SetFailed(path, "Cannot create directory")
                  /\ UNCHANGED dirs
               \/ /\ dirs' = dirs \cup Mkdirs(path)
                  /\ \/ SetFailed(path, "Directory is not writable")
                     \/ \E outcome \in ConfigWrites :
                          /\ STORAGE_PATH' = path
                          /\ save_storage_config(path, outcome)
                          /\ reply' =
                               [status |-> 200, error |-> "", body |-> path]
  /\ UNCHANGED <<files, now, saved>>
  /\ UNCHANGED <<pipelineVars, sanitizeVars, inflight>>

\* ---------------------------------------------------------------- sessions
\* The chat ids of the requests: none, '1', '2', 'x/../chat_1', 'x/../../y'.
ChatIds ==
  {<<>>, <<"1">>, <<"2">>,
   <<"x", "/", ".", ".", "/">> \o chat_ \o <<"1">>,
   <<"x", "/", ".", ".", "/", ".", ".", "/", "y">>}

\* A file of a message: its declared name, its content and the JSON type of
\* the content.
FileData(name, data, json) == [name |-> name, content |-> data, json |-> json]

\* The rest of a save request: the title and the messages with their files.
\* The first has the files 'my file:name?.txt', '../a', 'a:b.txt' and
\* 'a?b.txt'; the text of the third is a lone surrogate, which the utf-8
\* file of line 898 cannot encode; the file of the fourth has a number for
\* its content.
ChatBodies ==
  {[chat_title |-> "A",
    messages |->
      <<[text |-> "hi",
         files |-> <<FileData(MyFileName, "x", "string"),
                     FileData(<<".", ".", "/", "a">>, "y", "string"),
                     FileData(<<"a", ":", "b">> \o txt, "p", "string"),
                     FileData(<<"a", "?", "b">> \o txt, "q", "string")>>]>>],
   [chat_title |-> "B",
    messages |-> <<[text |-> "q", files |-> <<>>],
                   [text |-> "a", files |-> <<>>]>>],
   [chat_title |-> "T",
    messages |-> <<[text |-> "\\ud800", files |-> <<>>]>>],
   [chat_title |-> "U",
    messages |-> <<[text |-> "u",
                    files |-> <<FileData(<<"n">>, "5", "number")>>]>>]}

\* The save requests: every body under the ids without a '/', the second
\* body under the others.
SaveRequests ==
  {data \in {[chat_id |-> id, chat_title |-> b.chat_title,
              messages |-> b.messages] : id \in ChatIds, b \in ChatBodies} :
     ~InStr(<<"/">>, data.chat_id) \/ data.chat_title = "B"}

\* json.dump(session_data, f, ensure_ascii=False) raises UnicodeEncodeError
\* on a lone surrogate, after open() has truncated the file.
DumpRaises(messages) ==
  \E i \in 1..Len(messages) : messages[i].text = "\\ud800"

\* The chat ids of GET /load_session/<chat_id>: a URL segment has no '/'.
LoadIds == {<<"1">>, <<"2">>}

\* chat_folder = Path(STORAGE_PATH) / f"chat_{chat_id}" (lines 885, 978)
ChatFolder(chat_id) == STORAGE_PATH \o Parts(chat_ \o chat_id)

\* The files of the messages that are written, in order (lines 903-906).
RECURSIVE Uploads(_)
Uploads(messages) ==
  IF messages = <<>> THEN <<>>
  ELSE Head(messages).files \o Uploads(Tail(messages))

\* file_path.write_bytes(content) raises TypeError for a content that is
\* neither a string nor bytes (lines 913-916).
UploadRaises(file_list) ==
  \E i \in 1..Len(file_list) : file_list[i].json # "string"

RECURSIVE WriteUploads(_, _, _)
\* Lines 907-916 for each file: its sanitized name under uploads/ gets the
\* content; the loop ends at the first write that raises.
WriteUploads(fs, folder, file_list) ==
  IF file_list = <<>> \/ Head(file_list).json # "string"
    THEN fs
  ELSE LET file_data == Head(file_list)
           file_path ==
             Resolve(folder \o <<uploads, sanitize_filename(file_data.name)>>)
       IN WriteUploads(
            Write(fs, file_path, [kind |-> "data", content |-> file_data.content]),
            folder, Tail(file_list))

\* session_data (lines 890-896); created_at is not modelled.
SessionData(data, time) ==
  [kind |-> "json", chat_id |-> data.chat_id, title |-> data.chat_title,
   updated_at |-> time, messages |-> data.messages]

\* A handler's answer that touches nothing on disk.
Answer(status, error, ans) ==
  /\ reply' = [status |-> status, error |-> error, body |-> ans]
  /\ UNCHANGED <<dirs, files, now, saved>>

\* POST /save_session (lines 869-929): mkdir raises when a regular file is in
\* the way; an exception after it leaves what was written before it.
save_session ==
  /\ \E data \in SaveRequests :
       /\ last_call' = [op |-> "save_session", arg |-> data.chat_id]
       /\ IF Unset(STORAGE_PATH)
            THEN Answer(400, "Storage path not configured", <<>>)
          ELSE IF Unset(data.chat_id)
            THEN Answer(400, "No chat_id provided", <<>>)
          ELSE
            LET chat_folder == ChatFolder(data.chat_id)
                session_file == Resolve(Append(chat_folder, session_json))
                file_list == Uploads(data.messages)
                end == IF Mkdirs(chat_folder) \cap DOMAIN files # {}
                         THEN "mkdir raises"
                       ELSE IF DumpRaises(data.messages) THEN "dump raises"
                       ELSE IF UploadRaises(file_list) THEN "upload raises"
                       ELSE "ok"
                written == Write(files, session_file, SessionData(data, now + 1))
            IN /\ now < MaxSaves
               /\ now' = now + 1
               /\ saved' = Append(saved, [root |-> STORAGE_PATH, data |-> data,
                                          status |-> IF end = "ok" THEN 200 ELSE 500])
               /\ reply' = IF end = "ok"
                             THEN [status |-> 200, error |-> "", body |-> data.chat_id]
                           ELSE [status |-> 500, error |-> "exception", body |-> <<>>]
               /\ dirs' =
                    CASE end = "mkdir raises" -> dirs
                      [] end = "dump raises" \/ file_list = <<>> ->
                           dirs \cup Mkdirs(chat_folder)
                      [] OTHER ->
                           dirs \cup Mkdirs(chat_folder)
                                \cup {Resolve(Append(chat_folder, uploads))}
               /\ files' =
                    CASE end = "mkdir raises" -> files
                      [] end = "dump raises" ->
                           Write(files, session_file, [kind |-> "torn"])
                      [] OTHER -> WriteUploads(written, chat_folder, file_list)
  /\ UNCHANGED <<STORAGE_PATH, storage_config>>
  /\ UNCHANGED <<pipelineVars, sanitizeVars, inflight>>

\* The entry of one session in the list (lines 948-954).
Summary(session_data) ==
  [chat_id |-> session_data.chat_id, title |-> session_data.title,
   updated_at |-> session_data.updated_at,
   message_count |-> Len(session_data.messages)]

RECURSIVE SortByUpdate(_)
\* sessions.sort(key=lambda x: x.get('updated_at', ''), reverse=True)
SortByUpdate(sessions) ==
  IF sessions = {}
    THEN <<>>
  ELSE LET newest == CHOOSE x \in sessions :
                       \A y \in sessions : y.updated_at <= x.updated_at
       IN <<newest>> \o SortByUpdate(sessions \ {newest})

\* storage_dir.glob('chat_*') with is_dir() and session.json in it (lines
\* 942-945).
SessionFolders ==
  {d \in dirs : /\ Len(d) = Len(STORAGE_PATH) + 1
                /\ StartsWith(d, STORAGE_PATH)
                /\ StartsWith(d[Len(d)], chat_)
                /\ Append(d, session_json) \in DOMAIN files}

\* GET /load_sessions (lines 932-969): json.load of a torn file raises, and
\* the exception leaves the loop for the handler of line 967.
load_sessions ==
  /\ last_call' = [op |-> "load_sessions", arg |-> <<>>]
  /\ IF Unset(STORAGE_PATH)
       THEN Answer(400, "Storage path not configured", <<>>)
     ELSE IF \E d \in SessionFolders :
               files[Append(d, session_json)].kind # "json"
       THEN Answer(500, "exception", <<>>)
     ELSE Answer(200, "",
                 SortByUpdate({Summary(files[Append(d, session_json)]) :
                                 d \in SessionFolders}))
  /\ UNCHANGED <<STORAGE_PATH, storage_config>>
  /\ UNCHANGED <<pipelineVars, sanitizeVars, inflight>>

\* GET /load_session/<chat_id> (lines 972-996).
load_session ==
  /\ \E chat_id \in LoadIds :
       LET session_file == Resolve(Append(ChatFolder(chat_id), session_json))
       IN /\ last_call' = [op |-> "load_session", arg |-> chat_id]
          /\ IF Unset(STORAGE_PATH)
               THEN Answer(400, "Storage path not configured", <<>>)
             ELSE IF session_file \notin DOMAIN files
               THEN Answer(404, "Session not found", <<>>)
             ELSE IF files[session_file].kind # "json"
               THEN Answer(500, "exception", <<>>)
             ELSE Answer(200, "", files[session_file])
  /\ UNCHANGED <<STORAGE_PATH, storage_config>>
  /\ UNCHANGED <<pipelineVars, sanitizeVars, inflight>>

\* The server starts on a disk with the root directory and one regular file.
StoreInit ==
  /\ PipelineIdle
  /\ SanitizeIdle
  /\ STORAGE_PATH = <<>>
  /\ storage_config = [kind |-> "missing"]
  /\ dirs = {<<ROOT>>}
  /\ files = (<<ROOT, <<"f">>>> :> [kind |-> "data", content |-> "x"])
  /\ now = 0
  /\ saved = <<>>
  /\ last_call = NoCall
  /\ reply = NoReply
  /\ inflight = {}

StoreNext ==
  \/ set_storage_path
  \/ load_storage_config
  \/ save_session
  \/ load_sessions
  \/ load_session

SpecStore == StoreInit /\ [][StoreNext]_vars

\* ------------------------------------------------------ the store's claims
\* C14: with no storage root, save_session, load_sessions and load_session
\* answer 400 'Storage path not configured'; with a root and no chat id
\* save_session answers 400 'No chat_id provided'; in both cases no directory
\* and no file is created or modified.
C14_UnconfiguredRefused ==
  [][ /\ ( /\ last_call'.op \in {"save_session", "load_sessions", "load_session"}
           /\ STORAGE_PATH = <<>> )
         => /\ reply'.status = 400
            /\ reply'.error = "Storage path not configured"
            /\ UNCHANGED <<dirs, files>>
      /\ ( /\ last_call'.op = "save_session"
           /\ STORAGE_PATH # <<>>
           /\ last_call'.arg = <<>> )
         => /\ reply'.status = 400
            /\ reply'.error = "No chat_id provided"
            /\ UNCHANGED <<dirs, files>> ]_vars

\* C14 witness: sessions are on disk, the server has lost its root, and the
\* list is refused.
C14_Witness ==
  /\ last_call.op = "load_sessions"
  /\ STORAGE_PATH = <<>>
  /\ reply.error = "Storage path not configured"
  /\ \E i \in 1..Len(saved) : saved[i].status = 200

\* C15: after saves that all succeeded, load_session(id) returns the id, the
\* title and the messages of the last save for that id, whatever was saved
\* under other ids, and 404 for an id that was never saved.
C15_LoadReturnsLastSave ==
  ( /\ last_call.op = "load_session"
    /\ STORAGE_PATH # <<>>
    /\ \A i \in 1..Len(saved) : saved[i].status = 200 )
  => LET mine == {i \in 1..Len(saved) :
                    /\ saved[i].root = STORAGE_PATH
                    /\ saved[i].data.chat_id = last_call.arg}
     IN IF mine = {}
          THEN reply.status = 404
        ELSE /\ reply.status = 200
             /\ reply.body.chat_id = last_call.arg
             /\ reply.body.title = saved[Max(mine)].data.chat_title
             /\ reply.body.messages = saved[Max(mine)].data.messages

\* The session folders whose session.json is a JSON document.
IntactFolders ==
  {d \in SessionFolders : files[Append(d, session_json)].kind = "json"}

\* C16: load_sessions succeeds and lists the sessions whose record can be
\* read, whatever the state of the other session folders.
C16_UnreadableSkipped ==
  (last_call.op = "load_sessions" /\ STORAGE_PATH # <<>>)
  => /\ reply.status = 200
     /\ {reply.body[i] : i \in 1..Len(reply.body)} =
          {Summary(files[Append(d, session_json)]) : d \in IntactFolders}

\* C17: when set_storage_path has answered with success for a path, the
\* config file holds that path.
C17_SuccessIsPersisted ==
  (last_call.op = "set_storage_path" /\ reply.status = 200)
  => storage_config = [kind |-> "json", storage_path |-> last_call.arg]

\* C18: a set_storage_path call that fails leaves the root in memory and the
\* config file as they were.
C18_FailedSetChangesNothing ==
  [][ (last_call'.op = "set_storage_path" /\ reply'.status # 200)
        => UNCHANGED <<STORAGE_PATH, storage_config>> ]_vars

\* C18 witness: a root is set and persisted, and a later call failed at the
\* write test.
C18_Witness ==
  /\ last_call.op = "set_storage_path"
  /\ reply.status = 400
  /\ reply.error = "Directory is not writable"
  /\ STORAGE_PATH # <<>>
  /\ storage_config = [kind |-> "json", storage_path |-> STORAGE_PATH]

\* C20: every directory and every file that a save_session call creates or
\* writes lies inside the storage root.
C20_SavesStayInsideRoot ==
  [][ last_call'.op = "save_session"
        => \A p \in (dirs' \ dirs)
                    \cup {q \in DOMAIN files' :
                            q \notin DOMAIN files \/ files'[q] # files[q]} :
             Len(p) > Len(STORAGE_PATH) /\ StartsWith(p, STORAGE_PATH) ]_vars

\* The saves of the chat id that load_session was asked for.
SavesOfLoaded ==
  {i \in 1..Len(saved) : saved[i].data.chat_id = last_call.arg}

\* C21: when the last save of a chat id failed in the write of an upload,
\* and every save so far was for that id, load_session(id) answers as before
\* the failed call: with the record of the last save that succeeded, 404
\* when there is none.
C21_FailedSaveChangesNothing ==
  ( /\ last_call.op = "load_session"
    /\ STORAGE_PATH # <<>>
    /\ saved # <<>>
    /\ SavesOfLoaded = 1..Len(saved)
    /\ saved[Len(saved)].status = 500
    /\ UploadRaises(Uploads(saved[Len(saved)].data.messages))
    /\ \A i \in 1..(Len(saved) - 1) : saved[i].status = 200 )
  => IF Len(saved) = 1
       THEN reply.status = 404
     ELSE /\ reply.status = 200
          /\ reply.body.title = saved[Len(saved) - 1].data.chat_title
          /\ reply.body.messages = saved[Len(saved) - 1].data.messages

\* The files that lie in the uploads directory of a chat id.
UploadedFiles(chat_id) ==
  {p \in DOMAIN files :
     /\ Len(p) > 1
     /\ SubSeq(p, 1, Len(p) - 1) = Resolve(Append(ChatFolder(chat_id), uploads))}

\* C22: after a save_session that answered success, every attachment of the
\* saved messages has a file in the session's uploads directory whose content
\* is the attachment's content, also when two declared names of one record
\* sanitize to one filename.
C22_EveryAttachmentStored ==
  (last_call.op = "save_session" /\ reply.status = 200)
    => LET data == saved[Len(saved)].data
           file_list == Uploads(data.messages)
       IN \A i \in 1..Len(file_list) :
            \E p \in UploadedFiles(data.chat_id) :
              /\ files[p].kind = "data"
              /\ files[p].content = file_list[i].content

\* ------------------------------------------------- interleaved requests
\* app.run(host='localhost', port=port, debug=False) (line 1034) serves each
\* request in a thread of its own, and no handler takes a lock: the steps of
\* save_session on session.json interleave with the other requests.

\* The save requests of the interleaved runs: the ids without a '/', with the
\* bodies that are saved without an exception when a request runs alone.
RaceRequests ==
  {data \in SaveRequests :
     /\ ~InStr(<<"/">>, data.chat_id)
     /\ ~DumpRaises(data.messages)
     /\ ~UploadRaises(Uploads(data.messages))}

RECURSIVE NamesSize(_)
\* The characters of the names and contents of a list of files.
NamesSize(file_list) ==
  IF file_list = <<>> THEN 0
  ELSE Len(Head(file_list).name) + 1 + NamesSize(Tail(file_list))

\* The length of the document json.dump writes for a list of messages,
\* counted in units that grow with it: one for a message, one for a character
\* of a file's name or content.
DumpSize(messages) == Len(messages) + NamesSize(Uploads(messages))

\* What open(session_file, 'w') leaves on disk before the first write.
Truncated == [kind |-> "torn", size |-> 0]

\* The length of a session file.
FileSize(file) == IF file.kind = "json" THEN DumpSize(file.messages) ELSE file.size

\* The file after a writer that opened it at offset 0 writes its document
\* over what is there: the document, followed by the rest of a longer
\* content that another writer has put there since.
Overwrite(file, session_data) ==
  IF FileSize(file) > DumpSize(session_data.messages)
    THEN [kind |-> "torn", size |-> FileSize(file)]
  ELSE session_data

\* save_session up to open(session_file, 'w') (lines 869-898): the guards,
\* the mkdir, session_data with its updated_at, and the open that truncates
\* the record file.
BeginSave ==
  /\ \E data \in RaceRequests :
       IF Unset(STORAGE_PATH)
         THEN /\ last_call' = [op |-> "save_session", arg |-> data.chat_id]
              /\ Answer(400, "Storage path not configured", <<>>)
              /\ UNCHANGED inflight
       ELSE IF Unset(data.chat_id)
         THEN /\ last_call' = [op |-> "save_session", arg |-> data.chat_id]
              /\ Answer(400, "No chat_id provided", <<>>)
              /\ UNCHANGED inflight
       ELSE
         LET chat_folder == ChatFolder(data.chat_id)
             session_file == Resolve(Append(chat_folder, session_json))
         IN /\ now < MaxSaves
            /\ now' = now + 1
            /\ IF Mkdirs(chat_folder) \cap DOMAIN files # {}
                 THEN /\ last_call' =
                           [op |-> "save_session", arg |-> data.chat_id]
                      /\ reply' = [status |-> 500, error |-> "exception",
                                   body |-> <<>>]
                      /\ saved' = Append(saved, [root |-> STORAGE_PATH,
                                                 data |-> data, status |-> 500])
                      /\ UNCHANGED <<dirs, files, inflight>>
               ELSE /\ dirs' = dirs \cup Mkdirs(chat_folder)
                    /\ files' = Write(files, session_file, Truncated)
                    /\ inflight' = inflight \cup {SessionData(data, now + 1)}
                    /\ UNCHANGED <<saved, last_call, reply>>
  /\ UNCHANGED <<STORAGE_PATH, storage_config>>
  /\ UNCHANGED <<pipelineVars, sanitizeVars>>

\* The request that wrote a session record.
RequestOf(session_data) ==
  [chat_id |-> session_data.chat_id, chat_title |-> session_data.title,
   messages |-> session_data.messages]

\* save_session from json.dump on (lines 899-925): the document reaches the
\* file when the with block closes it, then the files are written and the
\* request is answered.
EndSave ==
  /\ \E session_data \in inflight :
       LET chat_folder == ChatFolder(session_data.chat_id)
           session_file == Resolve(Append(chat_folder, session_json))
           file_list == Uploads(session_data.messages)
           written == Write(files, session_file,
                            Overwrite(files[session_file], session_data))
       IN /\ inflight' = inflight \ {session_data}
          /\ files' = WriteUploads(written, chat_folder, file_list)
          /\ dirs' = IF file_list = <<>> THEN dirs
                     ELSE dirs \cup {Resolve(Append(chat_folder, uploads))}
          /\ saved' = Append(saved, [root |-> STORAGE_PATH,
                                     data |-> RequestOf(session_data),
                                     status |-> 200])
          /\ last_call' = [op |-> "save_session", arg |-> session_data.chat_id]
          /\ reply' = [status |-> 200, error |-> "",
                       body |-> session_data.chat_id]
  /\ UNCHANGED <<STORAGE_PATH, storage_config, now>>
  /\ UNCHANGED <<pipelineVars, sanitizeVars>>

\* The server has started with a stored root: load_storage_config has read
\* it (lines 105-116, 128).
RaceInit ==
  /\ PipelineIdle
  /\ SanitizeIdle
  /\ STORAGE_PATH = <<ROOT, <<"d">>>>
  /\ storage_config = [kind |-> "json", storage_path |-> <<ROOT, <<"d">>>>]
  /\ dirs = {<<ROOT>>, <<ROOT, <<"d">>>>}
  /\ files = (<<ROOT, <<"f">>>> :> [kind |-> "data", content |-> "x"])
  /\ now = 0
  /\ saved = <<>>
  /\ last_call = NoCall
  /\ reply = NoReply
  /\ inflight = {}

RaceNext ==
  \/ BeginSave
  \/ EndSave
  \/ load_sessions
  \/ load_session

SpecRace == RaceInit /\ [][RaceNext]_vars

\* The session records that save_session calls have put together for the
\* chat id load_session was asked for: the ones written and the ones in
\* flight.
RecordsOfLoaded ==
  {session_data \in inflight : session_data.chat_id = last_call.arg}
    \cup {SessionData(saved[i].data, t) : i \in SavesOfLoaded, t \in 1..now}

\* C23: with save_session calls interleaved with the loads, load_session(id)
\* answers with a complete record that a save_session call for the id has
\* put together, or NotFound when no save of the id has finished, and
\* load_sessions answers with the list: no load answers with an error.
C23_LoadsSeeCompleteRecords ==
  /\ last_call.op = "load_session"
       => \/ reply.status = 404 /\ SavesOfLoaded = {}
          \/ reply.status = 200 /\ reply.body \in RecordsOfLoaded
  /\ last_call.op = "load_sessions" => reply.status = 200

============================================================================
